---- MODULE Spec2Model ----
(***************************************************************************)
(* receipt-collage: the printer raster encoder (print/src/main.rs) and the *)
(* strip sampler of the layout tool (src/app.rs, src/lib.rs).              *)
(*                                                                         *)
(* The repository builds two programs.  SpecPrint is the print binary:     *)
(* load_bitmap_png, bits_to_bools and print_bitmap, one transport call per *)
(* step.  SpecGui is the layout tool: Load image, Load config and          *)
(* Save images, with sample_strip computed in binary32 arithmetic.         *)
(***************************************************************************)
EXTENDS Integers, Sequences, FiniteSets, TLC

VARIABLES
    prog,      \* which binary runs: "print" or "gui"
    \* ---- print binary ----
    image,     \* the PNG handed to load_bitmap_png (header + pixel bytes), or NoImage
    bitmap,    \* the &[bool] handed to print_bitmap
    pc,        \* position in main / print_bitmap
    band,      \* index of the chunk of bitmap.chunks(bytes_per_line) being sent
    x,         \* column loop counter of print_bitmap
    set,       \* byte-group loop counter of print_bitmap
    out,       \* bytes the transport has accepted, in order
    ncalls,    \* number of write/flush calls issued to the transport
    werr,      \* 0, or the number of the transport call that failed
    flushes,   \* Len(out) at each successful flush, in order
    short,     \* the writer: the calls at which its write accepts no byte (Ok(0))
    \* ---- layout tool ----
    app,       \* the StripApp: scene, image_path, texture, image_data
    saved,     \* the strip bitmaps written by the last Save images
    gpc,       \* "run", or "panic" once a handler has panicked
    \* ---- image_cm_index on its own ----
    query,     \* the arguments of a call of image_cm_index: [xy, dims]
    answer     \* whether the call has returned, and what it returned

printVars == <<image, bitmap, pc, band, x, set, out, ncalls, werr, flushes, short>>

guiVars == <<app, saved, gpc>>

fnVars == <<query, answer>>

----------------------------------------------------------------------------
(* Bounds of the model *)

\* bitmaps of up to MaxBands bands of 24 rows are printed
MaxBands == 2

\* a loaded config holds up to MaxStrips strips
MaxStrips == 1

\* image_cm_index is called on points up to Margin pixels outside the image
Margin == 1

\* ... on a grid of Steps points per pixel
Steps == 2

----------------------------------------------------------------------------
(* print/src/main.rs: constants *)

PIXELS_PER_BYTE == 8

PRINTER_BYTES_PER_ROW == 48

PRINTER_HORIZ_RES == PRINTER_BYTES_PER_ROW * PIXELS_PER_BYTE

BITMAP_D24 == <<27, 42, 33>>

LS_SET == <<27, 51>>

\* u8 arithmetic
U8 == 256

U16 == 65536

----------------------------------------------------------------------------
(* Inputs.  Pixel data is described by a pattern giving every byte of the  *)
(* decoded PNG buffer, so that a 384-pixel-wide bitmap need not be stored  *)
(* bit by bit in every state.                                              *)

Patterns == {"clear", "set", "weave", "edges"}

\* byte k (from 0) of a buffer filled with pattern p
PatByte(p, k) ==
    CASE p = "clear" -> 0
      [] p = "set"   -> 255
      [] p = "weave" -> (k * 29 + (k \div PRINTER_BYTES_PER_ROW) * 7 + 1) % U8
      [] p = "edges" -> IF k % PRINTER_BYTES_PER_ROW = 0 THEN 128      \* column 0
                        ELSE IF k % PRINTER_BYTES_PER_ROW = PRINTER_BYTES_PER_ROW - 1
                        THEN 1 ELSE 0                                 \* column 383

NoImage == [width |-> 0, height |-> 0, bit_depth |-> 0, color_type |-> "none", pat |-> "clear"]

NoBitmap == [len |-> 0, pat |-> "clear"]

\* heights that end a band exactly, and heights one and nine rows into a band
Heights == UNION {{24 * (b - 1) + 1, 24 * (b - 1) + 9, 24 * b} : b \in 1..MaxBands}

\* PNG files given on the command line
Images ==
    [width : {PRINTER_HORIZ_RES}, height : Heights, bit_depth : {1},
     color_type : {"Grayscale"}, pat : Patterns]
    \cup [width : {PRINTER_HORIZ_RES - 8, PRINTER_HORIZ_RES + 8}, height : {1, 24},
          bit_depth : {1}, color_type : {"Grayscale"}, pat : {"set"}]
    \cup [width : {PRINTER_HORIZ_RES}, height : {24}, bit_depth : {8},
          color_type : {"Grayscale"}, pat : {"set"}]
    \cup [width : {PRINTER_HORIZ_RES}, height : {24}, bit_depth : {1},
          color_type : {"Indexed"}, pat : {"set"}]

\* slices print_bitmap is called with directly, which no PNG decodes to
Slices ==
    [len : {0, 1, PRINTER_HORIZ_RES - 1, PRINTER_HORIZ_RES + 1,
            24 * PRINTER_HORIZ_RES + 8, 24 * PRINTER_HORIZ_RES - 8},
     pat : {"set", "weave"}]

----------------------------------------------------------------------------
(* load_bitmap_png and bits_to_bools *)

\* bytes per row of a decoded PNG of the given width and bit depth
RowBytes(img) == (img.width * img.bit_depth + 7) \div 8

\* info.buffer_size(): the length of the decoded buffer
buffer_size(img) == RowBytes(img) * img.height

\* the three assert_eq! of load_bitmap_png
load_asserts(img) ==
    /\ img.bit_depth = 1
    /\ img.color_type = "Grayscale"
    /\ img.width = PRINTER_HORIZ_RES

\* bits_to_bools: eight bools per byte; bool i of a byte b is (b << i) & 0x80 != 0
bits_to_bools(img) == [len |-> 8 * buffer_size(img), pat |-> img.pat]

\* bitmap[i]: element i (from 0) of the bool slice
GetBool(bm, i) ==
    LET b == PatByte(bm.pat, i \div 8)
        sh == (b * (2 ^ (i % 8))) % U8      \* b << i in u8
    IN  (sh \div 128) % 2 # 0             \* & 0x80 != 0

----------------------------------------------------------------------------
(* print_bitmap *)

\* let bytes_per_line = 3 * 8 * width
bytes_per_line == 3 * 8 * PRINTER_HORIZ_RES

\* bitmap.chunks(bytes_per_line).count()
NumChunks(bm) == (bm.len + bytes_per_line - 1) \div bytes_per_line

\* a variant of Window: every chunk taken as a full one, the last one too
WindowFull(bm, b) == [start |-> b * bytes_per_line, len |-> bytes_per_line]

\* chunk b (from 0) of bitmap.chunks(bytes_per_line): where it starts and its length
Window(bm, b) ==
    LET start == b * bytes_per_line
        rest  == bm.len - start
    IN  [start |-> start, len |-> IF rest < bytes_per_line THEN rest ELSE bytes_per_line]

\* window.get(idx).copied().unwrap_or(false)
window_get(bm, w, idx) ==
    IF idx < w.len THEN GetBool(bm, w.start + idx) ELSE FALSE

\* a variant of Or1: the bit is never set
Or1Dropped(b) == b

\* b |= 1 on a u8
Or1(b) == IF b % 2 = 0 THEN b + 1 ELSE b

\* the body of `for bit in 0..8`, from bit on, with accumulator b
RECURSIVE PackFrom(_, _, _, _, _, _)
PackFrom(bm, w, xx, st, bit, b) ==
    IF bit = 8 THEN b
    ELSE LET row == st * 8 + bit
             idx == row * PRINTER_HORIZ_RES + xx
             wv  == window_get(bm, w, idx)
             b1  == (b * 2) % U8                    \* b <<= 1
             b2  == IF wv THEN Or1(b1) ELSE b1
         IN  PackFrom(bm, w, xx, st, bit + 1, b2)

\* a variant of PackByte: the rows of a byte packed least significant bit first
RECURSIVE PackLsbFrom(_, _, _, _, _)
PackLsbFrom(bm, w, xx, st, bit) ==
    IF bit = 8 THEN 0
    ELSE (IF window_get(bm, w, (st * 8 + bit) * PRINTER_HORIZ_RES + xx) THEN 2 ^ bit ELSE 0)
         + PackLsbFrom(bm, w, xx, st, bit + 1)

PackByteLsb(bm, w, xx, st) == PackLsbFrom(bm, w, xx, st, 0)

\* the byte print_bitmap writes for column xx, byte group st of chunk w
PackByte(bm, w, xx, st) == PackFrom(bm, w, xx, st, 0, 0)

\* a variant of LenBytes: the length sent most significant byte first
LenBytesBe ==
    LET n == (3 * (PRINTER_HORIZ_RES % U16)) % U16
    IN  <<n \div U8, n % U8>>

\* u16::to_le_bytes(3 * width as u16)
LenBytes ==
    LET n == (3 * (PRINTER_HORIZ_RES % U16)) % U16
    IN  <<n % U8, n \div U8>>

\* a variant of print_asserts: the whole-rows assertion is missing
print_asserts_nonempty(bm) == bm.len > 0

\* the two assertions at the head of print_bitmap
print_asserts(bm) ==
    /\ bm.len % PRINTER_HORIZ_RES = 0
    /\ bm.len > 0

----------------------------------------------------------------------------
(* binary32 arithmetic.  A finite f32 is (-1)^neg * m * 2^e with m = 0     *)
(* (zero) or 2^23 <= m < 2^24.  Every operation rounds to nearest, ties to *)
(* even, as the f32 operators of the source do.  The inputs of the model   *)
(* keep every value in the normal range, so subnormal numbers, infinities  *)
(* and NaN are not represented; the sign of zero is not kept (no           *)
(* operation of the source observes it).                                   *)

TwoP12 == 4096

TwoP22 == 4194304

TwoP23 == 8388608

TwoP24 == 16777216

TwoP26 == 67108864

TwoP27 == 134217728

F32Zero == [neg |-> FALSE, m |-> 0, e |-> 0]

\* the element of a one-element set
Val(S) == CHOOSE v \in S : TRUE

\* F(v) and F(v, w) with the arguments evaluated once, before F uses them (a
\* Rust call takes its arguments by value)
Let(v, F(_)) == CHOOSE r \in {F(a) : a \in {v}} : TRUE

Let2(v, w, F(_, _)) == CHOOSE r \in {F(a, b) : a \in {v}, b \in {w}} : TRUE

\* -1, 0, 1 as a is less than, equal to, greater than b
Cmp(a, b) == IF a < b THEN -1 ELSE IF a = b THEN 0 ELSE 1

\* the nearest f32 to (-1)^neg * (q + f) * 2^e, where 2^23 <= q < 2^24 and
\* half is Cmp(f, 1/2) for the discarded fraction 0 <= f < 1
F32Round(neg, q, e, half) ==
    LET up == half = 1 \/ (half = 0 /\ q % 2 = 1)
        q1 == IF up THEN q + 1 ELSE q
    IN  IF q1 = TwoP24 THEN [neg |-> neg, m |-> TwoP23, e |-> e + 1]
        ELSE [neg |-> neg, m |-> q1, e |-> e]

\* <<m * 2^k, e - k>> for the k that brings 0 < m < lim * 2 into [lim, 2 * lim)
ShiftUp(m, e, lim) ==
    LET k == CHOOSE k \in 0..27 : m * (2 ^ k) >= lim
    IN  <<m * (2 ^ k), e - k>>

\* `n as f32` for an integer 0 <= n < 2^24 (exact)
F32FromInt(n) ==
    IF n = 0 THEN F32Zero
    ELSE LET t == ShiftUp(n, 0, TwoP23) IN [neg |-> FALSE, m |-> t[1], e |-> t[2]]

F32Neg(x0) == Let(x0, LAMBDA a : IF a.m = 0 THEN a ELSE [a EXCEPT !.neg = ~a.neg])

\* a * b
F32Mul(x0, y0) == Let2(x0, y0, LAMBDA a, b :
    IF a.m = 0 \/ b.m = 0 THEN F32Zero
    ELSE LET a1 == a.m \div TwoP12    a0 == a.m % TwoP12
             b1 == b.m \div TwoP12    b0 == b.m % TwoP12
             low == a0 * b0
             mid == a1 * b0 + a0 * b1 + (low \div TwoP12)
             hi  == a1 * b1 + (mid \div TwoP12)       \* bits 24..47 of the product
             lo  == (mid % TwoP12) * TwoP12 + (low % TwoP12)  \* bits 0..23
             neg == a.neg # b.neg
         IN  IF hi >= TwoP23
             THEN F32Round(neg, hi, a.e + b.e + 24, Cmp(lo, TwoP23))
             ELSE F32Round(neg, 2 * hi + (lo \div TwoP23), a.e + b.e + 23,
                           Cmp(lo % TwoP23, TwoP22)))

\* `bits` more quotient bits of r / d, six at a time: <<quotient, remainder>>
RECURSIVE LongDiv(_, _, _, _)
LongDiv(q, r, d, bits) ==
    IF bits = 0 THEN <<q, r>>
    ELSE LET k == IF bits >= 6 THEN 6 ELSE bits
             t == r * (2 ^ k)
         IN  LongDiv(q * (2 ^ k) + (t \div d), t % d, d, bits - k)

\* a / b, b not zero
F32Div(x0, y0) == Let2(x0, y0, LAMBDA a, b :
    IF a.m = 0 THEN F32Zero
    ELSE LET neg == a.neg # b.neg
             ge  == a.m >= b.m
             qr  == IF ge THEN LongDiv(1, a.m - b.m, b.m, 23)
                          ELSE LongDiv(0, a.m, b.m, 24)
             e   == IF ge THEN a.e - b.e - 23 ELSE a.e - b.e - 24
         IN  F32Round(neg, qr[1], e, Cmp(2 * qr[2], b.m)))

\* |a| >= |b|
MagGe(a, b) ==
    IF b.m = 0 THEN TRUE
    ELSE IF a.m = 0 THEN FALSE
    ELSE a.e > b.e \/ (a.e = b.e /\ a.m >= b.m)

\* a + b
F32Add(x0, y0) == Let2(x0, y0, LAMBDA a, b :
    IF a.m = 0 THEN b
    ELSE IF b.m = 0 THEN a
    ELSE LET big   == IF MagGe(a, b) THEN a ELSE b
             small == IF MagGe(a, b) THEN b ELSE a
             d     == big.e - small.e
             X     == big.m * 8                      \* three guard bits
             s8    == small.m * 8
             sh    == IF d >= 27 THEN 0 ELSE s8 \div (2 ^ d)
             stick == IF d >= 27 THEN TRUE ELSE s8 % (2 ^ d) # 0
             Y     == IF stick /\ sh % 2 = 0 THEN sh + 1 ELSE sh
             e0    == big.e - 3
         IN  IF a.neg = b.neg
             THEN LET S  == X + Y
                      S1 == IF S >= TwoP27
                            THEN (S \div 2) + (IF S % 2 = 1 /\ (S \div 2) % 2 = 0 THEN 1 ELSE 0)
                            ELSE S
                      e1 == IF S >= TwoP27 THEN e0 + 1 ELSE e0
                  IN  F32Round(big.neg, S1 \div 8, e1 + 3, Cmp(S1 % 8, 4))
             ELSE LET S == X - Y
                  IN  IF S = 0 THEN F32Zero
                      ELSE LET t == ShiftUp(S, e0, TwoP26)
                           IN  F32Round(big.neg, t[1] \div 8, t[2] + 3, Cmp(t[1] % 8, 4)))

\* a - b
F32Sub(a, b) == F32Add(a, F32Neg(b))

\* a < b
F32Lt(x0, y0) == Let2(x0, y0, LAMBDA a, b :
    IF a.m = 0 /\ b.m = 0 THEN FALSE
    ELSE IF a.m = 0 THEN ~b.neg
    ELSE IF b.m = 0 THEN a.neg
    ELSE IF a.neg # b.neg THEN a.neg
    ELSE IF a.neg THEN ~MagGe(b, a) ELSE ~MagGe(a, b))

\* a.max(b)
F32Max(x0, y0) == Let2(x0, y0, LAMBDA a, b : IF F32Lt(a, b) THEN b ELSE a)

\* `a as isize`: truncation toward zero
F32ToInt(x0) == Let(x0, LAMBDA a :
    LET mag == IF a.e >= 0 THEN a.m * (2 ^ a.e)
               ELSE IF a.e <= -24 THEN 0
               ELSE a.m \div (2 ^ (-a.e))
    IN  IF a.neg THEN -mag ELSE mag)

\* `a as usize`: truncation toward zero, negative values saturate to 0
F32ToUsize(x0) == Let(x0, LAMBDA a : IF a.neg THEN 0 ELSE F32ToInt(a))

\* the f32 nearest to the decimal literal n / d
F32Lit(n, d) == F32Div(F32FromInt(n), F32FromInt(d))

----------------------------------------------------------------------------
(* src/lib.rs: Dimensions.  A Vec2 is a pair <<x, y>> of f32; every Vec2   *)
(* operator of the source works component by component.                    *)

\* Dimensions::aspect
aspect(dims) == F32Div(F32FromInt(dims.resolution[1]), F32FromInt(dims.resolution[2]))

\* Dimensions::width
width(dims) == dims.width

\* Dimensions::height
height(dims) == F32Div(dims.width, aspect(dims))

\* Dimensions::px_per_cm
px_per_cm(dims) == F32Div(F32FromInt(dims.resolution[1]), width(dims))

\* Dimensions::cm_per_norm
cm_per_norm(dims) == F32Max(width(dims), height(dims))

----------------------------------------------------------------------------
(* src/app.rs: the strip sampler *)

\* const STRIP_DRAW_WIDTH: f32 = 4.8
STRIP_DRAW_WIDTH == F32Lit(24, 5)

STRIP_PIXELS_PER_ROW == 384

\* const STRIP_DOTS_PER_CM: f32 = STRIP_PIXELS_PER_ROW as f32 / STRIP_DRAW_WIDTH
STRIP_DOTS_PER_CM == F32Div(F32FromInt(STRIP_PIXELS_PER_ROW), STRIP_DRAW_WIDTH)

\* Color32::WHITE, as 0xRRGGBB of an opaque colour
WHITE == 16777215

\* Option::None
None == <<>>

F32One == F32FromInt(1)

F32Two == F32FromInt(2)

\* (-degrees).to_radians().sin_cos() for the rotations of the model, as
\* <<sin, cos>>: the binary32 values of sinf and cosf at the binary32 angle
SinCosNeg(degrees) ==
    CASE degrees = 0   -> <<F32Zero, F32One>>
      [] degrees = 90  -> <<F32Neg(F32One), [neg |-> TRUE, m |-> 12303662, e |-> -48]>>
      [] degrees = 180 -> <<[neg |-> FALSE, m |-> 12303662, e |-> -47], F32Neg(F32One)>>

\* Rot2 * Vec2 for the rotation with sine sc[1] and cosine sc[2]
RotMul(sc, v0) == Let(v0, LAMBDA v :
    <<F32Sub(F32Mul(sc[2], v[1]), F32Mul(sc[1], v[2])),
      F32Add(F32Mul(sc[1], v[1]), F32Mul(sc[2], v[2]))>>)

\* strip_pixel_cm, one axis i of the offset from the strip's centre, before
\* the rotation
StripOffset(p, strip, dots_per_cm, i) ==
    LET wh == strip.size[i]
    IN  Let(F32Div(F32Div(F32FromInt(p), wh), dots_per_cm), LAMBDA xy1 :   \* px / wh / dots_per_cm
        Let(F32Sub(F32Mul(xy1, F32Two), F32One), LAMBDA xy2 :              \* xy * 2. - splat(1.)
            F32Div(F32Mul(xy2, wh), F32Two)))                              \* xy * wh / 2.

\* strip_pixel_cm
strip_pixel_cm(px, py, strip, dots_per_cm, dims) ==
    LET xy == <<StripOffset(px, strip, dots_per_cm, 1),
                StripOffset(py, strip, dots_per_cm, 2)>>
        r  == SinCosNeg(strip.rotation)
    IN  Let2(cm_per_norm(dims), RotMul(r, xy), LAMBDA cpn, rxy :
            <<F32Add(F32Mul(cpn, strip.position[1]), rxy[1]),
              F32Add(F32Mul(cpn, strip.position[2]), rxy[2])>>)

\* image_cm_index: xy / Vec2::new(dims.width(), dims.height())
NormOf(xy0, dims) == Let(xy0, LAMBDA xy :
    <<F32Div(xy[1], width(dims)), F32Div(xy[2], height(dims))>>)

\* image_cm_index: res * norm
PxOf(xy, dims) == Let(NormOf(xy, dims), LAMBDA norm :
    <<F32Mul(F32FromInt(dims.resolution[1]), norm[1]),
      F32Mul(F32FromInt(dims.resolution[2]), norm[2])>>)

\* a bound test that admits pixel 0
InBndFromZero(v, res) == v >= 0 /\ v < res

\* a bound test that admits the index one past the last pixel
InBndToRes(v, res) == v > 0 /\ v <= res

\* the bound test of image_cm_index on one axis
InBnd(v, res) == v > 0 /\ v < res

\* image_cm_index: Some((x, y)) as <<x, y>>, or None
image_cm_index(xy, dims) == Let(PxOf(xy, dims), LAMBDA px :
    Let2(F32ToInt(px[1]), F32ToInt(px[2]), LAMBDA ix, iy :
        IF InBnd(ix, dims.resolution[1]) /\ InBnd(iy, dims.resolution[2])
        THEN <<ix, iy>> ELSE None))

\* the size of the bitmap sample_strip makes: strip.size.map(|v| (v * dots_per_cm) as usize)
StripSize(strip, dots_per_cm) ==
    <<F32ToUsize(F32Mul(strip.size[1], dots_per_cm)),
      F32ToUsize(F32Mul(strip.size[2], dots_per_cm))>>

\* the assertion of ColorImage's Index<(usize, usize)>
InImage(img, idx) == idx[1] < img.size[1] /\ idx[2] < img.size[2]

\* input_img[idx]
ImageAt(img, idx) == img.pixels[idx[2] * img.size[1] + idx[1] + 1]

\* the source index of destination pixel k (row-major, from 1) of a strip
\* bitmap ow pixels wide
SourceIndex(k, ow, strip, dots_per_cm, dims) ==
    Let(strip_pixel_cm((k - 1) % ow, (k - 1) \div ow, strip, dots_per_cm, dims),
        LAMBDA xy : image_cm_index(xy, dims))

\* the value of a pixel whose read input_img[idx] panicked
Panicked == -1

\* the body of the loops of sample_strip for destination pixel k
SamplePixel(input_img, k, ow, strip, dots_per_cm, dims) ==
    Let(SourceIndex(k, ow, strip, dots_per_cm, dims), LAMBDA idx :
        IF idx = None THEN WHITE                      \* the pixel keeps Color32::WHITE
        ELSE IF InImage(input_img, idx) THEN ImageAt(input_img, idx)
        ELSE Panicked)

\* the pixels as a sequence, from pixel k on, in the order of the loops
SampleFrom(input_img, k, n, ow, strip, dots_per_cm, dims) ==
    [j \in 1..(n - k + 1) |-> SamplePixel(input_img, k + j - 1, ow, strip, dots_per_cm, dims)]
    \o <<>>                                   \* as a sequence

\* sample_strip: the strip bitmap, or a panic when input_img[idx] is indexed
\* outside the image
sample_strip(input_img, strip, dots_per_cm, dims) ==
    Let(StripSize(strip, dots_per_cm), LAMBDA sz :
    Let(SampleFrom(input_img, 1, sz[1] * sz[2], sz[1], strip, dots_per_cm, dims), LAMBDA px :
        IF \E k \in DOMAIN px : px[k] = Panicked
        THEN [panic |-> TRUE, size |-> sz, pixels |-> <<>>]
        ELSE [panic |-> FALSE, size |-> sz, pixels |-> px]))

\* sample_strips from strip number i on: the bitmaps saved, in order, until one panics
RECURSIVE sample_from(_, _, _, _)
sample_from(input_img, strips, dims, i) ==
    IF i > Len(strips) THEN <<>>
    ELSE Let(sample_strip(input_img, strips[i], STRIP_DOTS_PER_CM, dims), LAMBDA one :
             IF one.panic THEN <<one>>
             ELSE <<one>> \o sample_from(input_img, strips, dims, i + 1))

\* sample_strips
sample_strips(input_img, strips, dims) == sample_from(input_img, strips, dims, 1)

----------------------------------------------------------------------------
(* The transport: a Write whose every call either accepts all it is given  *)
(* or fails (BufWriter over the USB printer), and, for print_bitmap over   *)
(* any W: Write, one whose write accepts nothing at the calls in `short`.  *)

\* a write / write_all of buf that succeeds, continuing at `next`
WriteOk(buf, next) ==
    /\ ncalls + 1 \notin short
    /\ out' = out \o buf
    /\ ncalls' = ncalls + 1
    /\ pc' = next
    /\ UNCHANGED <<werr, flushes>>

\* a write of one byte of which the writer accepts nothing: it returns Ok(0),
\* the count is dropped, and print_bitmap goes on at `next`
WriteShort(next) ==
    /\ ncalls + 1 \in short
    /\ ncalls' = ncalls + 1
    /\ pc' = next
    /\ UNCHANGED <<out, werr, flushes>>

\* a variant of CallErr: the failed call is tried again
CallErrRetried ==
    /\ ncalls' = ncalls + 1
    /\ werr' = ncalls + 1
    /\ UNCHANGED <<pc, out, flushes, band, x, set>>

\* a write, write_all or flush that fails: `?` returns the error
CallErr ==
    /\ ncalls' = ncalls + 1
    /\ werr' = ncalls + 1
    /\ pc' = "err"
    /\ UNCHANGED <<out, flushes, band, x, set>>

\* where print_bitmap goes after the last byte of a chunk, or after the line
\* spacing command: the next chunk, or the flush
AfterChunk(b) == IF b < NumChunks(bitmap) THEN "band_op" ELSE "flush"

----------------------------------------------------------------------------
(* Actions of the print binary *)

\* main: load_bitmap_png(&path), bits_to_bools(&image)
LoadBitmapPng ==
    /\ prog = "print" /\ pc = "load"
    /\ \/ /\ load_asserts(image)
          /\ bitmap' = bits_to_bools(image)
          /\ pc' = "entry"
       \/ /\ ~load_asserts(image)
          /\ pc' = "panic"
          /\ UNCHANGED bitmap
    /\ UNCHANGED <<prog, image, band, x, set, out, ncalls, werr, flushes, short>>

\* print_bitmap: the sanity checks
PrintEntry ==
    /\ prog = "print" /\ pc = "entry"
    /\ \/ /\ print_asserts(bitmap)
          /\ pc' = "ls_set"
       \/ /\ ~print_asserts(bitmap)
          /\ pc' = "panic"
    /\ UNCHANGED <<prog, image, bitmap, band, x, set, out, ncalls, werr, flushes, short>>

\* printer.write_all(LS_SET)?
WriteLsSet ==
    /\ prog = "print" /\ pc = "ls_set"
    /\ \/ WriteOk(LS_SET, "ls_arg") /\ UNCHANGED <<band, x, set>>
       \/ CallErr
    /\ UNCHANGED <<prog, image, bitmap, short>>

\* printer.write(&[0])?
WriteLsArg ==
    /\ prog = "print" /\ pc = "ls_arg"
    /\ \/ WriteOk(<<0>>, AfterChunk(0)) /\ UNCHANGED <<band, x, set>>
       \/ WriteShort(AfterChunk(0)) /\ UNCHANGED <<band, x, set>>
       \/ CallErr
    /\ UNCHANGED <<prog, image, bitmap, short>>

\* printer.write_all(BITMAP_D24)?
WriteBandOp ==
    /\ prog = "print" /\ pc = "band_op"
    /\ \/ WriteOk(BITMAP_D24, "band_len") /\ UNCHANGED <<band, x, set>>
       \/ CallErr
    /\ UNCHANGED <<prog, image, bitmap, short>>

\* printer.write_all(&u16::to_le_bytes(3 * width as u16))?
WriteBandLen ==
    /\ prog = "print" /\ pc = "band_len"
    /\ \/ /\ WriteOk(LenBytes, "data")
          /\ x' = 0 /\ set' = 0
          /\ UNCHANGED band
       \/ CallErr
    /\ UNCHANGED <<prog, image, bitmap, short>>

\* one pass of `for set in 0..3` inside `for x in 0..width`: printer.write(&[b])?
WriteDataByte ==
    /\ prog = "print" /\ pc = "data"
    /\ \/ /\ WriteOk(<<PackByte(bitmap, Window(bitmap, band), x, set)>>,
                     IF set = 2 /\ x = PRINTER_HORIZ_RES - 1 THEN "lf" ELSE "data")
          /\ set' = IF set = 2 THEN 0 ELSE set + 1
          /\ x' = IF set = 2 THEN x + 1 ELSE x
          /\ UNCHANGED band
       \/ /\ WriteShort(IF set = 2 /\ x = PRINTER_HORIZ_RES - 1 THEN "lf" ELSE "data")
          /\ set' = IF set = 2 THEN 0 ELSE set + 1
          /\ x' = IF set = 2 THEN x + 1 ELSE x
          /\ UNCHANGED band
       \/ CallErr
    /\ UNCHANGED <<prog, image, bitmap, short>>

\* printer.write(b"\n")?, then the next chunk
WriteLineFeed ==
    /\ prog = "print" /\ pc = "lf"
    /\ \/ /\ WriteOk(<<10>>, AfterChunk(band + 1))
          /\ band' = band + 1
          /\ UNCHANGED <<x, set>>
       \/ /\ WriteShort(AfterChunk(band + 1))
          /\ band' = band + 1
          /\ UNCHANGED <<x, set>>
       \/ CallErr
    /\ UNCHANGED <<prog, image, bitmap, short>>

\* printer.flush()?; Ok(())
Flush ==
    /\ prog = "print" /\ pc = "flush"
    /\ \/ /\ flushes' = Append(flushes, Len(out))
          /\ ncalls' = ncalls + 1
          /\ pc' = "ok"
          /\ UNCHANGED <<out, werr, band, x, set>>
       \/ CallErr
    /\ UNCHANGED <<prog, image, bitmap, short>>

----------------------------------------------------------------------------
(* Inputs of the layout tool *)

\* the pixels of a decoded w x h PNG: every pixel its own colour, none white
PixelsOf(w, h) == [k \in 1..(w * h) |-> k]

\* the files a file dialog can pick
Files == <<
    [readable |-> TRUE,  bit_depth |-> 8,  color_type |-> "Rgba", size |-> <<6, 4>>],
    [readable |-> TRUE,  bit_depth |-> 8,  color_type |-> "Rgba", size |-> <<8, 8>>],
    [readable |-> TRUE,  bit_depth |-> 16, color_type |-> "Rgba", size |-> <<6, 4>>] >>

Paths == 1..Len(Files)

\* Option<PathBuf>::None, Option<ColorImage>::None
NoPath == 0

NoData == [size |-> <<0, 0>>, pixels |-> <<>>]

Half == F32Lit(1, 2)

\* the strips of the config files: sizes of a few dots at 80 dots per cm
ConfigStrips == {
    [position |-> <<Half, Half>>, size |-> <<F32Lit(1, 20), F32Lit(1, 80)>>, rotation |-> 0],
    [position |-> <<F32Lit(1, 4), Half>>, size |-> <<F32Lit(3, 80), F32Lit(1, 40)>>, rotation |-> 90],
    [position |-> <<Half, Half>>, size |-> <<F32Lit(1, 10), F32Lit(1, 20)>>, rotation |-> 180] }

\* the dimensions of the config files
ConfigDims == {
    [resolution |-> <<6, 4>>,   width |-> F32Lit(3, 40)],
    [resolution |-> <<8, 8>>,   width |-> F32Lit(1, 10)],
    [resolution |-> <<12, 12>>, width |-> F32Lit(3, 20)] }

StripLists == UNION {[1..n -> ConfigStrips] : n \in 0..MaxStrips}

\* the scenes a config file can hold
Configs == [dims : ConfigDims, strips : StripLists]

\* Scene::default
DefaultScene ==
    [dims |-> [resolution |-> <<1920, 1080>>, width |-> F32FromInt(100)], strips |-> <<>>]

\* StripApp::default
DefaultApp ==
    [scene |-> DefaultScene, image_path |-> NoPath, texture |-> FALSE, image_data |-> NoData]

----------------------------------------------------------------------------
(* Handlers of the layout tool, as functions of the StripApp *)

\* StripApp::load_image
load_image(a) ==
    IF a.image_path = NoPath THEN a
    ELSE LET file == Files[a.image_path]
         IN  IF ~file.readable THEN a
             ELSE IF file.bit_depth # 8 THEN a
             ELSE IF file.color_type # "Rgba" THEN a
             ELSE [a EXCEPT !.image_data = [size |-> file.size,
                                            pixels |-> PixelsOf(file.size[1], file.size[2])],
                            !.scene.dims.resolution = file.size,
                            !.texture = TRUE]

\* the head of StripApp::update: load the image if not present
update_head(a) ==
    IF a.image_path # NoPath /\ ~a.texture THEN load_image(a) ELSE a

\* a frame in which no button is clicked
Frame ==
    /\ prog = "gui" /\ gpc = "run"
    /\ app' = update_head(app)
    /\ UNCHANGED <<saved, gpc>>

\* "Load image", the dialog returning path
ClickLoadImage(path) ==
    /\ prog = "gui" /\ gpc = "run"
    /\ app' = load_image([update_head(app) EXCEPT !.image_path = path])
    /\ UNCHANGED <<saved, gpc>>

\* "Load config", the picked file holding scene sc
ClickLoadConfig(sc) ==
    /\ prog = "gui" /\ gpc = "run"
    /\ app' = [update_head(app) EXCEPT !.scene = sc]
    /\ UNCHANGED <<saved, gpc>>

\* "Save images"
ClickSaveImages ==
    /\ prog = "gui" /\ gpc = "run"
    /\ \E a \in {update_head(app)} :
           /\ app' = a
           /\ IF a.image_data = NoData
              THEN UNCHANGED <<saved, gpc>>
              ELSE \E res \in {sample_strips(a.image_data, a.scene.strips, a.scene.dims)} :
                       /\ saved' = res
                       /\ gpc' = IF \E i \in DOMAIN res : res[i].panic THEN "panic" ELSE "run"

IdlePrint ==
    /\ image = NoImage /\ bitmap = NoBitmap /\ pc = "idle"
    /\ band = 0 /\ x = 0 /\ set = 0
    /\ out = <<>> /\ ncalls = 0 /\ werr = 0 /\ flushes = <<>> /\ short = {}

IdleGui == app = DefaultApp /\ saved = <<>> /\ gpc = "idle"

Pending == [done |-> FALSE, idx |-> None]

IdleFn == query = [xy |-> <<F32Zero, F32Zero>>, dims |-> DefaultScene.dims] /\ answer = Pending

\* the layout tool starts from its defaults, or from the scene and image path
\* it stored at the last shutdown
InitGui ==
    /\ prog = "gui"
    /\ IdlePrint
    /\ app \in {[DefaultApp EXCEPT !.scene = sc, !.image_path = p] :
                  sc \in {DefaultScene} \cup Configs, p \in {NoPath} \cup Paths}
    /\ saved = <<>>
    /\ gpc = "run"
    /\ IdleFn

NextGui ==
    \/ Frame /\ UNCHANGED <<prog, printVars, fnVars>>
    \/ \E path \in Paths : ClickLoadImage(path) /\ UNCHANGED <<prog, printVars, fnVars>>
    \/ \E sc \in Configs : ClickLoadConfig(sc) /\ UNCHANGED <<prog, printVars, fnVars>>
    \/ ClickSaveImages /\ UNCHANGED <<prog, printVars, fnVars>>

----------------------------------------------------------------------------
(* image_cm_index as a function: called on the points of a grid laid over  *)
(* and around the image                                                    *)

\* the dimensions image_cm_index is called with
IndexDims ==
    ConfigDims \cup {[resolution |-> <<3, 5>>, width |-> F32FromInt(1)],
                     [resolution |-> <<5, 2>>, width |-> F32Lit(1, 16)]}

\* k / Steps pixels from the image's origin along an axis res pixels and cm long
GridCm(k, res, cm) ==
    LET frac == F32Lit(IF k < 0 THEN -k ELSE k, Steps * res)
    IN  F32Mul(IF k < 0 THEN F32Neg(frac) ELSE frac, cm)

GridRange(res) == (-Margin * Steps)..((res + Margin) * Steps)

Queries ==
    UNION {{[xy |-> <<GridCm(kx, d.resolution[1], width(d)),
                      GridCm(ky, d.resolution[2], height(d))>>, dims |-> d] :
              kx \in GridRange(d.resolution[1]), ky \in GridRange(d.resolution[2])} :
           d \in IndexDims}

\* one call of image_cm_index
CallIndex ==
    /\ prog = "index" /\ ~answer.done
    /\ answer' = [done |-> TRUE, idx |-> image_cm_index(query.xy, query.dims)]
    /\ UNCHANGED <<prog, query>>

InitIndex ==
    /\ prog = "index"
    /\ IdlePrint /\ IdleGui
    /\ query \in Queries
    /\ answer = Pending

NextIndex == CallIndex /\ UNCHANGED <<printVars, guiVars>>

InitPrint ==
    /\ prog = "print"
    /\ \/ /\ image \in Images
          /\ bitmap = NoBitmap
          /\ pc = "load"
       \/ /\ image = NoImage
          /\ bitmap \in Slices
          /\ pc = "entry"
    /\ band = 0 /\ x = 0 /\ set = 0
    /\ out = <<>> /\ ncalls = 0 /\ werr = 0 /\ flushes = <<>>
    /\ short = {}                  \* main's writer is a BufWriter: it takes every byte or fails
    /\ IdleGui /\ IdleFn

\* the calls at which a writer of the model may accept nothing: the line spacing
\* argument, the length bytes, the first data byte, the first line feed
ShortCalls == {2, 4, 5, 1157}

\* print_bitmap called with any writer W: Write
InitShort ==
    /\ prog = "print"
    /\ image \in {i \in Images : load_asserts(i) /\ i.height \in {1, 25}
                                  /\ i.pat \in {"set", "weave"}}
    /\ bitmap = NoBitmap
    /\ pc = "load"
    /\ band = 0 /\ x = 0 /\ set = 0
    /\ out = <<>> /\ ncalls = 0 /\ werr = 0 /\ flushes = <<>>
    /\ short \in SUBSET ShortCalls
    /\ IdleGui /\ IdleFn

NextPrint ==
    \/ LoadBitmapPng /\ UNCHANGED <<guiVars, fnVars>>
    \/ PrintEntry /\ UNCHANGED <<guiVars, fnVars>>
    \/ WriteLsSet /\ UNCHANGED <<guiVars, fnVars>>
    \/ WriteLsArg /\ UNCHANGED <<guiVars, fnVars>>
    \/ WriteBandOp /\ UNCHANGED <<guiVars, fnVars>>
    \/ WriteBandLen /\ UNCHANGED <<guiVars, fnVars>>
    \/ WriteDataByte /\ UNCHANGED <<guiVars, fnVars>>
    \/ WriteLineFeed /\ UNCHANGED <<guiVars, fnVars>>
    \/ Flush /\ UNCHANGED <<guiVars, fnVars>>

vars == <<prog, printVars, guiVars, fnVars>>

SpecPrint == InitPrint /\ [][NextPrint]_vars

SpecShort == InitShort /\ [][NextPrint]_vars

SpecGui == InitGui /\ [][NextGui]_vars

SpecIndex == InitIndex /\ [][NextIndex]_vars

----------------------------------------------------------------------------
(* Properties of the print binary *)

\* rows of the bitmap handed to print_bitmap
Rows == bitmap.len \div 384

\* ceil(h / 24)
BandsOf(h) == (h + 23) \div 24

\* bytes per band on the wire: opcode, length, data, line feed
BandBytes == 3 + 2 + 1152 + 1

\* where band b (from 0) starts in the stream: after the line spacing command
BandAt(b) == 3 + b * BandBytes

\* data byte k of column xx of band b, as the transport received it
DataByte(b, xx, k) == out[BandAt(b) + 5 + 3 * xx + k + 1]

\* bit i (0 = least significant) of byte v
BitOf(v, i) == (v \div (2 ^ i)) % 2

\* the pixel of the bitmap at (row, column)
PixelAt(row, col) == GetBool(bitmap, row * 384 + col)

\* the stream of the 24-row all-set bitmap
AllSet24 == <<27, 51, 0, 27, 42, 33, 128, 4>> \o [i \in 1..1152 |-> 255] \o <<10>>

\* C1: a successful print_bitmap has sent the line spacing command 1B 33 00
\* once at the start, then per band, top to bottom, 1B 2A 21, 80 04, 1152 data
\* bytes and 0A, then flushed once after the last band, and has done nothing
\* else on the transport; the 24-row all-set bitmap gives exactly
\* 1B 33 00 1B 2A 21 80 04, 1152 times FF, 0A.
C1_Stream ==
    pc = "ok" =>
        LET n == BandsOf(Rows)
        IN  /\ Len(out) = 3 + n * BandBytes
            /\ SubSeq(out, 1, 3) = <<27, 51, 0>>
            /\ \A b \in 0..(n - 1) :
                 /\ SubSeq(out, BandAt(b) + 1, BandAt(b) + 5) = <<27, 42, 33, 128, 4>>
                 /\ \A i \in 1..1152 : out[BandAt(b) + 5 + i] \in 0..255
                 /\ out[BandAt(b) + BandBytes] = 10
            /\ flushes = <<Len(out)>>
            /\ ncalls = 2 + n * (2 + 1152 + 1) + 1
            /\ werr = 0
            /\ (Rows = 24 /\ bitmap.pat = "set" => out = AllSet24)

C1_Witness == pc = "ok" /\ Rows = 24 /\ bitmap.pat = "set" /\ out = AllSet24

\* C2: in every band b, bit 7 - j of the data byte at 3 * x + k is 1 exactly
\* when the pixel at row 24 * b + 8 * k + j, column x is set.
C2_Bits ==
    pc = "ok" =>
        \A b \in 0..(BandsOf(Rows) - 1), xx \in 0..383, k \in 0..2, j \in 0..7 :
            LET row == 24 * b + 8 * k + j
            IN  row < Rows => (BitOf(DataByte(b, xx, k), 7 - j) = 1 <=> PixelAt(row, xx))

C2_Witness == pc = "ok" /\ bitmap.pat = "weave" /\ Rows = 48

\* C3: print_bitmap sends ceil(h / 24) bands; the rows of the last band that
\* lie beyond the bitmap are sent as unset bits; no read of the bitmap is
\* outside its bounds.
C3_Bands ==
    /\ pc = "ok" =>
          /\ Len(out) = 3 + BandsOf(Rows) * BandBytes
          /\ \A b \in 0..(BandsOf(Rows) - 1) : out[BandAt(b) + 1] = 27
          /\ \A xx \in 0..383, k \in 0..2, j \in 0..7 :
               LET b == BandsOf(Rows) - 1
               IN  24 * b + 8 * k + j >= Rows => BitOf(DataByte(b, xx, k), 7 - j) = 0
    /\ pc = "data" =>
          \A bit \in 0..7 :
              LET w   == Window(bitmap, band)
                  idx == (set * 8 + bit) * PRINTER_HORIZ_RES + x
              IN  idx < w.len => w.start + idx < bitmap.len

C3_Witness ==
    /\ pc = "ok" /\ Rows = 25 /\ bitmap.pat = "set"
    /\ Len(out) = 3 + 2 * BandBytes
    /\ DataByte(1, 0, 0) = 128 /\ DataByte(1, 383, 2) = 0

\* C4 as claimed: an all-set bitmap of any height gives FF in every data
\* byte of every band, an all-unset one 00.
C4_AllBytes ==
    pc = "ok" =>
        \A b \in 0..(BandsOf(Rows) - 1), xx \in 0..383, k \in 0..2 :
            /\ bitmap.pat = "set" => DataByte(b, xx, k) = 255
            /\ bitmap.pat = "clear" => DataByte(b, xx, k) = 0

\* C4, amended: an all-set bitmap gives FF in every data byte whose eight
\* rows lie inside the bitmap (so in every data byte when the height is a
\* multiple of 24); in the last band the bits of rows beyond the bitmap are
\* unset, so a byte wholly beyond it is 00; an all-unset bitmap gives 00 in
\* every data byte.
C4_Amended ==
    pc = "ok" =>
        \A b \in 0..(BandsOf(Rows) - 1), xx \in 0..383, k \in 0..2 :
            LET first  == 24 * b + 8 * k              \* the byte's first row
                inside == IF Rows - first >= 8 THEN 8
                          ELSE IF Rows - first <= 0 THEN 0 ELSE Rows - first
            IN  /\ bitmap.pat = "set" => DataByte(b, xx, k) = 256 - 2 ^ (8 - inside)
                /\ bitmap.pat = "clear" => DataByte(b, xx, k) = 0

C4_Witness ==
    /\ pc = "ok" /\ bitmap.pat = "set" /\ Rows = 25
    /\ DataByte(0, 5, 2) = 255 /\ DataByte(1, 5, 0) = 128 /\ DataByte(1, 5, 1) = 0

\* C5: a bitmap of the wrong width, of a pixel count that is no multiple of
\* 384, or empty is rejected, and nothing has been done on the transport
\* when it is.
C5_Rejected ==
    /\ (image # NoImage /\ image.width # 384) =>
          pc \in {"load", "panic"} /\ out = <<>> /\ ncalls = 0
    /\ (pc \notin {"load", "entry"} /\ (bitmap.len % 384 # 0 \/ bitmap.len = 0)) =>
          pc = "panic" /\ out = <<>> /\ ncalls = 0

C5_Witness == pc = "panic" /\ bitmap.len % 384 # 0 /\ bitmap.len > 0 /\ out = <<>>

\* C6: once a write or flush has failed, print_bitmap has returned the error
\* and the failed call stays the last call made on the transport; what the
\* transport had accepted is left as it is.
C6_Stops ==
    /\ [](werr # 0 => pc = "err" /\ ncalls = werr)
    /\ [][werr # 0 => UNCHANGED <<out, ncalls, flushes>>]_vars

C6_Witness == werr # 0 /\ pc = "err" /\ Len(out) > BandAt(1) /\ ncalls = werr

----------------------------------------------------------------------------
(* Properties of image_cm_index *)

\* the normalized coordinate of the queried point, as image_cm_index computes it
QNorm == NormOf(query.xy, query.dims)

\* the pixel coordinate res * norm of the queried point, before truncation
QPx == PxOf(query.xy, query.dims)

F32Le0(v) == v.m = 0 \/ v.neg

F32Ge1(v) == ~F32Lt(v, F32One)

\* the normalized coordinate is <= 0 or >= 1 on either axis
OffImage == \E i \in 1..2 : F32Le0(QNorm[i]) \/ F32Ge1(QNorm[i])

\* C7 as claimed: image_cm_index returns None exactly for the points whose
\* normalized coordinate is <= 0 or >= 1 on either axis, and an index for
\* every point strictly inside.
C7_SomeIffInside == answer.done => (answer.idx = None <=> OffImage)

\* C7, amended: image_cm_index returns None for every point whose normalized
\* coordinate is <= 0 or >= 1 on either axis, and returns an index exactly
\* when the pixel coordinate res * norm is at least 1 and less than res on
\* both axes; the index is then that coordinate truncated. A point inside
\* the image but less than one pixel from its origin on an axis gets None.
C7_Amended ==
    answer.done =>
        /\ OffImage => answer.idx = None
        /\ answer.idx # None <=>
               \A i \in 1..2 : /\ ~F32Lt(QPx[i], F32One)
                               /\ F32Lt(QPx[i], F32FromInt(query.dims.resolution[i]))
        /\ answer.idx # None => \A i \in 1..2 : answer.idx[i] = F32ToInt(QPx[i])

\* a point strictly inside the image, in the first pixel column: no sample
C7_Witness ==
    /\ answer.done /\ ~OffImage /\ answer.idx = None
    /\ F32Lt(QPx[1], F32One) /\ ~F32Lt(QPx[2], F32One)

\* C8 as claimed: a returned index is never in the first or the last row or
\* column of the image.
C8_NoBoundary ==
    (answer.done /\ answer.idx # None) =>
        \A i \in 1..2 : /\ answer.idx[i] # 0
                        /\ answer.idx[i] # query.dims.resolution[i] - 1

\* C8, amended: a returned index (x, y) has 1 <= x <= resolution.width - 1
\* and 1 <= y <= resolution.height - 1: the first row and column are never
\* returned, the last row and column are.
C8_Amended ==
    (answer.done /\ answer.idx # None) =>
        \A i \in 1..2 : /\ answer.idx[i] >= 1
                        /\ answer.idx[i] <= query.dims.resolution[i] - 1

\* an index in the last column and the last row is returned
C8_Witness ==
    /\ answer.done /\ answer.idx # None
    /\ answer.idx = <<query.dims.resolution[1] - 1, query.dims.resolution[2] - 1>>

----------------------------------------------------------------------------
(* Properties of the strip sampler, on the bitmaps "Save images" samples *)

\* a "Save images" frame that samples the strips
Saves == ClickSaveImages /\ app'.image_data # NoData

\* bmp is a crop of img: one offset maps every pixel of bmp to its source
IsCrop(img, bmp) ==
    \E x0 \in 0..(img.size[1] - bmp.size[1]), y0 \in 0..(img.size[2] - bmp.size[2]) :
        \A k \in 1..(bmp.size[1] * bmp.size[2]) :
            /\ k \in DOMAIN bmp.pixels
            /\ bmp.pixels[k] = ImageAt(img, <<x0 + ((k - 1) % bmp.size[1]),
                                              y0 + ((k - 1) \div bmp.size[1])>>)

\* strip i of scene a.scene is not rotated, lies at the center, and the
\* sampling density is the native density of the image a holds
CropCase(a, i) ==
    /\ a.scene.strips[i].rotation = 0
    /\ a.scene.strips[i].position = <<Half, Half>>
    /\ a.scene.dims.resolution = a.image_data.size
    /\ F32Div(F32FromInt(a.scene.dims.resolution[1]), a.scene.dims.width) = STRIP_DOTS_PER_CM

\* C9 as claimed: the bitmap sampled for an unrotated strip at the center,
\* at the image's native pixel density, is a pixel-identical crop of the
\* image: one offset (x0, y0) maps every output pixel (x, y) to the
\* reference pixel (x0 + x, y0 + y).
C9_Crop ==
    [][Saves => \A i \in DOMAIN saved' :
                   (CropCase(app', i) /\ ~saved'[i].panic) => IsCrop(app'.image_data, saved'[i])]_vars

\* destination pixel k of strip i, as the fill policy gives it
Filled(a, i, k, ow) ==
    LET idx == SourceIndex(k, ow, a.scene.strips[i], STRIP_DOTS_PER_CM, a.scene.dims)
    IN  IF idx = None THEN WHITE ELSE ImageAt(a.image_data, idx)

\* C10 as claimed: sample_strip never fails: every strip of the scene gets
\* its bitmap, each pixel a copy of the reference pixel image_cm_index names,
\* or white when it names none; the reference image is left as it was.
C10_Fills ==
    [][Saves => /\ DOMAIN saved' = DOMAIN app'.scene.strips
                /\ \A i \in DOMAIN saved' :
                      /\ ~saved'[i].panic
                      /\ \A k \in DOMAIN saved'[i].pixels :
                            saved'[i].pixels[k] = Filled(app', i, k, saved'[i].size[1])
                /\ app.image_data # NoData => app'.image_data = app.image_data]_vars

\* every source index of strip i of scene a.scene lies inside the image a holds
IndicesInImage(a, i) ==
    Let(StripSize(a.scene.strips[i], STRIP_DOTS_PER_CM), LAMBDA sz :
        \A k \in 1..(sz[1] * sz[2]) :
            Let(SourceIndex(k, sz[1], a.scene.strips[i], STRIP_DOTS_PER_CM, a.scene.dims),
                LAMBDA idx : idx # None => InImage(a.image_data, idx)))

\* C11 as claimed: whenever "Save images" samples the strips, the scene's
\* dims.resolution is the pixel size of the loaded image, every index
\* image_cm_index returns lies inside the image, and no read input_img[idx]
\* is out of bounds.
C11_ResolutionIsImage ==
    [][Saves => /\ app'.scene.dims.resolution = app'.image_data.size
                /\ \A i \in DOMAIN app'.scene.strips : IndicesInImage(app', i)
                /\ gpc' # "panic"]_vars

----------------------------------------------------------------------------
(* print_bitmap over any writer *)

\* C12 as claimed: whenever print_bitmap returns success the transport has
\* accepted the complete stream of 3 + ceil(h / 24) * (5 + 1152 + 1) bytes,
\* no byte missing, also with a writer whose write may accept fewer bytes
\* than it is offered.
C12_Complete ==
    pc = "ok" =>
        /\ Len(out) = 3 + BandsOf(Rows) * BandBytes
        /\ SubSeq(out, 1, 3) = LS_SET \o <<0>>
        /\ \A b \in 0..(BandsOf(Rows) - 1) :
              /\ SubSeq(out, BandAt(b) + 1, BandAt(b) + 5) = BITMAP_D24 \o LenBytes
              /\ out[BandAt(b) + BandBytes] = 10

====
